---- MODULE Spec2Model ----
(***************************************************************************)
(* Model of the identity-resolution and lifecycle subsystem of             *)
(* harbour-scraper: the duplicate/recency purge of cleanup_jobs.py and the *)
(* admission pipeline of harbour_scraper.py (seen-set file, existence      *)
(* gate, scrape, insert, notify, mark).                                    *)
(*                                                                         *)
(* Text values (links, date strings, document ids, URLs, file lines) are   *)
(* sequences of one-character or one-chunk strings, so that strip(),       *)
(* strptime() and Python's string ordering are computed, not assumed.      *)
(***************************************************************************)
EXTENDS Integers, Sequences, FiniteSets, TLC

(* ------------------------------ bounds --------------------------------- *)

\* Number of document ids the initial store of a purge run may use.
MaxDocs == 3

\* Number of purge cycles run one after another.
MaxCycles == 2

\* Number of runs of harbour_scraper.main, one after another.
MaxRuns == 2

\* Number of distinct URLs the channel may supply.
MaxUrls == 2

\* Number of calls of delete_old_jobs, one after another.
MaxSweeps == 1

\* Runs of cleanup_jobs.main beside scraper runs that can be killed
MaxCrashCycles == 1

(* --------------------------- text helpers ------------------------------ *)

\* The whitespace characters of the texts: blank, tab and newline.
Whitespace == {" ", "\t", "\n"}

\* str.strip(): drop leading whitespace.
RECURSIVE LStrip(_)
LStrip(s) == IF s # <<>> /\ Head(s) \in Whitespace THEN LStrip(Tail(s)) ELSE s

\* str.strip(): drop trailing whitespace.
RECURSIVE RStrip(_)
RStrip(s) ==
    IF s # <<>> /\ s[Len(s)] \in Whitespace THEN RStrip(SubSeq(s, 1, Len(s) - 1)) ELSE s

\* str.strip()
Strip(s) == RStrip(LStrip(s))

\* Code-point order of the characters that occur in document ids.
Alphabet == <<"0", "1", "2", "3", "4", "5", "6", "7", "8", "9", "A", "B", "a", "b">>

CharOrd(c) == CHOOSE k \in 1..Len(Alphabet) : Alphabet[k] = c

\* Python's str.__lt__: lexicographic by code point, a proper prefix first.
RECURSIVE StrLess(_, _)
StrLess(a, b) ==
    IF b = <<>> THEN FALSE
    ELSE IF a = <<>> THEN TRUE
    ELSE IF Head(a) = Head(b) THEN StrLess(Tail(a), Tail(b))
    ELSE CharOrd(Head(a)) < CharOrd(Head(b))

\* dict.get(key, default)
Get(data, key, default) == IF key \in DOMAIN data THEN data[key] ELSE default

\* Python's `x or d` on strings.
OrElse(x, d) == IF x = <<>> THEN d ELSE x

(* ------------------------------ dates ---------------------------------- *)

Digits == {"0", "1", "2", "3", "4", "5", "6", "7", "8", "9"}

DigitVal(c) == CharOrd(c) - 1

IsDigits(s) == \A k \in 1..Len(s) : s[k] \in Digits

RECURSIVE ToInt(_)
ToInt(s) == IF s = <<>> THEN 0 ELSE 10 * ToInt(SubSeq(s, 1, Len(s) - 1)) + DigitVal(s[Len(s)])

IsLeap(y) == (y % 4 = 0) /\ ((y % 100 # 0) \/ (y % 400 = 0))

DaysInMonth(y, m) ==
    IF m = 2 THEN (IF IsLeap(y) THEN 29 ELSE 28)
    ELSE IF m \in {4, 6, 9, 11} THEN 30 ELSE 31

RECURSIVE DaysBeforeMonth(_, _)
DaysBeforeMonth(y, m) == IF m = 1 THEN 0 ELSE DaysBeforeMonth(y, m - 1) + DaysInMonth(y, m - 1)

\* date.toordinal(): day 1 is 0001-01-01.
ToOrdinal(y, m, d) ==
    LET p == y - 1
    IN  p * 365 + (p \div 4) - (p \div 100) + (p \div 400) + DaysBeforeMonth(y, m) + d

\* Positions of the "-" separators of a date string.
Dashes(s) == {k \in 1..Len(s) : s[k] = "-"}

\* The value parse_date_safe returns for "no date".
None == 0

\* date.max.toordinal(), 9999-12-31
DateMaxOrdinal == 3652059

\* strptime's %d: one or two digits, or a blank followed by one digit that is
\* not 0 (the blank is dropped by int()); other fields take digits only.
DayDigits(ds) ==
    IF Len(ds) = 2 /\ ds[1] = " " /\ ds[2] \in Digits \ {"0"} THEN <<ds[2]>> ELSE ds

\* parse_date_safe: strip, then strptime(s, "%Y-%m-%d").date(), None on any failure.
parse_date_safe(s0) ==
    LET s == Strip(OrElse(s0, <<>>))
    IN  IF s = <<>> THEN None
        ELSE IF Cardinality(Dashes(s)) # 2 THEN None
        ELSE LET d1 == CHOOSE k \in Dashes(s) : \A j \in Dashes(s) : k <= j
                 d2 == CHOOSE k \in Dashes(s) : \A j \in Dashes(s) : k >= j
                 ys == SubSeq(s, 1, d1 - 1)
                 ms == SubSeq(s, d1 + 1, d2 - 1)
                 ds == DayDigits(SubSeq(s, d2 + 1, Len(s)))
             IN  IF ~(IsDigits(ys) /\ IsDigits(ms) /\ IsDigits(ds)) THEN None
                 ELSE IF Len(ys) # 4 \/ Len(ms) \notin {1, 2} \/ Len(ds) \notin {1, 2} THEN None
                 ELSE IF ToInt(ys) < 1 \/ ToInt(ms) \notin 1..12 THEN None
                 ELSE IF ToInt(ds) \notin 1..DaysInMonth(ToInt(ys), ToInt(ms)) THEN None
                 ELSE ToOrdinal(ToInt(ys), ToInt(ms), ToInt(ds))

(* ------------------------------ state ---------------------------------- *)

VARIABLES
    store,                 \* the Jobs collection: a set of documents [id, data]
    today,                 \* datetime.now().date(), as an ordinal
    cpc,                   \* cleanup_jobs.main: "idle", "deleting", "done", "crashed"
    cycle,                 \* number of cleanup cycles started
    fetched,               \* docs / id_to_ref: the documents the scan returned
    recent_delete_ids,     \* cleanup_jobs.main local
    duplicate_delete_ids,  \* cleanup_jobs.main local
    all_delete_ids,        \* cleanup_jobs.main local
    pending,               \* ids of all_delete_ids the delete loop has not reached
    failures,              \* cleanup_jobs.main local
    failed_ids,            \* history: ids whose delete raised in this cycle
    clean,                 \* history: no delete of any earlier cycle raised
    seen_file,             \* processed_urls.txt: its lines, in the order written
    apc,                   \* harbour_scraper.main: "idle", "sweeping", "loop", "mark",
                           \*   "scrape", "insert", "notify", "mark_inserted",
                           \*   "finished", "aborted", "crashed"
    run,                   \* number of runs of harbour_scraper.main started
    processed,             \* main local: the set load_processed_urls() returned
    todo,                  \* the URLs of new_urls the for loop has not reached
    url,                   \* main local: the URL of the current iteration (<<>> between
                           \*   iterations, where its old value is never read)
    job_data,              \* main local: the scraped record while it awaits its insert
    log,                   \* history: the collaborator calls of the latest loop iteration
                           \*   (of the start of the run before the first), in order
    inserted,              \* history: the URLs for which an add of this environment has
                           \*   returned
    spc,                   \* delete_old_jobs: "idle", "streaming", "done", "failed"
    sweeps,                \* number of calls of delete_old_jobs
    months,                \* delete_old_jobs parameter, in half months
    cutoff,                \* delete_old_jobs local: [day, after_midnight]
    to_check,              \* documents the stream has not delivered yet
    checked,               \* delete_old_jobs local
    deleted,               \* delete_old_jobs local
    sweep_fetched,         \* history: the documents the stream had to deliver
    sweep_failed           \* history: ids whose delete raised in this sweep

cleanupVars == <<cpc, cycle, fetched, recent_delete_ids, duplicate_delete_ids,
                 all_delete_ids, pending, failures, failed_ids, clean>>

admVars == <<seen_file, apc, run, processed, todo, url, job_data, log, inserted>>

sweepVars == <<spc, sweeps, months, cutoff, to_check, checked, deleted, sweep_fetched,
               sweep_failed>>

vars == <<store, today, cleanupVars, admVars, sweepVars>>

(* ------------------------ cleanup_jobs.main ---------------------------- *)

\* timedelta(days=2) of the recency cutoff
RecentDays == 2

\* cutoff_recent = now - timedelta(days=2)
cutoff_recent(now) == now - RecentDays

\* Mutant of mk_info: a record dated exactly on the cutoff is not recent.
mk_info_strict(doc, now) ==
    LET dp == parse_date_safe(Get(doc.data, "date-posted", <<>>))
    IN  [id |-> doc.id,
         date |-> dp,
         moreInfoLink |-> Strip(OrElse(Get(doc.data, "moreInfoLink", <<>>), <<>>)),
         is_recent |-> (dp # None /\ dp > cutoff_recent(now))]

\* The info dict built for one fetched document.
mk_info(doc, now) ==
    LET dp == parse_date_safe(Get(doc.data, "date-posted", <<>>))
    IN  [id |-> doc.id,
         date |-> dp,
         moreInfoLink |-> Strip(OrElse(Get(doc.data, "moreInfoLink", <<>>), <<>>)),
         is_recent |-> (dp # None /\ dp >= cutoff_recent(now))]

\* info_list, in the order the stream delivered the documents; infoOf[doc] is the
\* info dict of a document, computed once per document.
info_list(docs, infoOf) == [k \in 1..Len(docs) |-> infoOf[docs[k]]]

\* recent_delete_ids = {info["id"] for info in info_list if info["is_recent"]}
RecentIds(il) == {il[k].id : k \in {j \in 1..Len(il) : il[j].is_recent}}

\* Mutant of link_to_infos: recent documents stay candidates for "keeper".
link_to_infos_with_recent(il, recent, link) ==
    LET keep(i) == i.moreInfoLink # <<>> /\ i.moreInfoLink = link
    IN  SelectSeq(il, keep)

\* link_to_infos[link]: the non-recent infos with this non-empty link, in list order.
link_to_infos(il, recent, link) ==
    LET keep(i) == i.id \notin recent /\ i.moreInfoLink # <<>> /\ i.moreInfoLink = link
    IN  SelectSeq(il, keep)

\* Mutant of sort_key: unknown dates sort first.
sort_key_unknown_first(i) ==
    IF i.date = None THEN [d |-> 0, id |-> i.id] ELSE [d |-> i.date, id |-> i.id]

\* Mutant of sort_key: the date alone, without the id.
sort_key_date_only(i) ==
    IF i.date = None THEN [d |-> DateMaxOrdinal, id |-> <<>>] ELSE [d |-> i.date, id |-> <<>>]

\* sort_key: (date, id), with date.max standing for an unknown date.
sort_key(i) ==
    IF i.date = None THEN [d |-> DateMaxOrdinal, id |-> i.id] ELSE [d |-> i.date, id |-> i.id]

\* Python's tuple comparison of two sort keys.
KeyLess(a, b) == a.d < b.d \/ (a.d = b.d /\ StrLess(a.id, b.id))

\* Insert x behind every element whose key is not greater (stable).
RECURSIVE InsertSorted(_, _)
InsertSorted(x, s) ==
    IF s = <<>> THEN <<x>>
    ELSE IF KeyLess(sort_key(x), sort_key(Head(s))) THEN <<x>> \o s
    ELSE <<Head(s)>> \o InsertSorted(x, Tail(s))

\* sorted(infos, key=sort_key)
RECURSIVE sorted(_)
sorted(infos) ==
    IF infos = <<>> THEN <<>>
    ELSE InsertSorted(infos[Len(infos)], sorted(SubSeq(infos, 1, Len(infos) - 1)))

\* Mutant of to_delete: a group of two is not treated as a duplicate group.
to_delete_from_three(infos) ==
    IF Len(infos) <= 2 THEN {}
    ELSE LET infos_sorted == sorted(infos)
         IN  {infos_sorted[k].id : k \in 2..Len(infos)}

\* Mutant of to_delete: only infos_sorted[1:2] is scheduled.
to_delete_one_per_cycle(infos) ==
    IF Len(infos) <= 1 THEN {}
    ELSE LET infos_sorted == sorted(infos)
         IN  {infos_sorted[2].id}

\* Mutant of to_delete: a group of two or more keeps none of its members.
to_delete_whole_group(infos) ==
    IF Len(infos) <= 1 THEN {}
    ELSE {infos[k].id : k \in 1..Len(infos)}

\* The ids of infos_sorted[1:] of one group; nothing for a group of one.
to_delete(infos) ==
    IF Len(infos) <= 1 THEN {}
    ELSE LET infos_sorted == sorted(infos)
         IN  {infos_sorted[k].id : k \in 2..Len(infos)}

\* duplicate_delete_ids over all groups of link_to_infos.
DuplicateIds(il, recent) ==
    UNION {to_delete(link_to_infos(il, recent, link)) :
              link \in {il[k].moreInfoLink : k \in 1..Len(il)}}

\* All orders in which the stream may deliver the documents of a set.
RECURSIVE ScanOrders(_)
ScanOrders(S) ==
    IF S = {} THEN {<<>>}
    ELSE UNION {{<<x>> \o t : t \in ScanOrders(S \ {x})} : x \in S}

\* Mutant of delete_doc: every document with the link of the given one goes.
delete_doc_by_link(st, doc_id) ==
    {d \in st : \A e \in st :
        e.id = doc_id => Get(d.data, "moreInfoLink", <<>>) # Get(e.data, "moreInfoLink", <<>>)}

\* Mutant of delete_doc: the document is kept and its fields are cleared.
delete_doc_clear_fields(st, doc_id) ==
    {IF d.id = doc_id THEN [id |-> d.id, data |-> [k \in {} |-> <<>>]] ELSE d : d \in st}

\* Lines 131-133: id_to_ref[doc_id].delete() removes the document of that id, if
\* the store still has it.
delete_doc(st, doc_id) == {d \in st : d.id # doc_id}

\* Mutant of AfterLoop: the loop is left after one iteration.
AfterLoop_first_only(left) == "done"

\* The delete loop of lines 129-140 ends, and lines 142-143 log the totals, as soon
\* as no id of all_delete_ids is left to visit.
AfterLoop(left) == IF left = {} THEN "done" ELSE "deleting"

\* Lines 52-125: fetch every document (the stream delivering them in any order) and
\* compute the deletion sets. Each intermediate value is bound once.
CleanupScan ==
    /\ cpc \in {"idle", "done"}
    /\ cycle < MaxCycles
    /\ \E infoOf \in {[d \in store |-> mk_info(d, today)]} :
       \E docs \in ScanOrders(store) :
       \E il \in {info_list(docs, infoOf)} :
       \E recent \in {RecentIds(il)} :
       \E dups \in {DuplicateIds(il, recent)} :
          /\ fetched' = store
          /\ recent_delete_ids' = recent
          /\ duplicate_delete_ids' = dups
          /\ all_delete_ids' = recent \cup dups
          /\ pending' = recent \cup dups
          /\ cpc' = AfterLoop(recent \cup dups)
    /\ failures' = 0
    /\ failed_ids' = {}
    /\ clean' = (clean /\ failed_ids = {})
    /\ cycle' = cycle + 1
    /\ UNCHANGED <<store, today>>
    /\ UNCHANGED <<admVars, sweepVars>>

\* Line 57: the stream raises; main has no handler, the script ends.
CleanupScanFails ==
    /\ cpc \in {"idle", "done"}
    /\ cycle < MaxCycles
    /\ cycle' = cycle + 1
    /\ cpc' = "crashed"
    /\ UNCHANGED <<store, today, fetched, recent_delete_ids, duplicate_delete_ids,
                   all_delete_ids, pending, failures, failed_ids, clean>>
    /\ UNCHANGED <<admVars, sweepVars>>

\* Lines 129-134: one iteration of the delete loop (set order: any id next), the
\* delete succeeding; after the last one the totals are logged (142-143).
CleanupDeleteOk ==
    /\ cpc = "deleting"
    /\ \E doc_id \in pending :
         /\ store' = delete_doc(store, doc_id)
         /\ pending' = pending \ {doc_id}
         /\ cpc' = AfterLoop(pending \ {doc_id})
    /\ UNCHANGED <<today, cycle, fetched, recent_delete_ids, duplicate_delete_ids,
                   all_delete_ids, failures, failed_ids, clean>>
    /\ UNCHANGED <<admVars, sweepVars>>

\* Lines 137-140: one iteration of the delete loop, the delete raising.
CleanupDeleteFails ==
    /\ cpc = "deleting"
    /\ \E doc_id \in pending :
         /\ pending' = pending \ {doc_id}
         /\ failed_ids' = failed_ids \cup {doc_id}
         /\ cpc' = AfterLoop(pending \ {doc_id})
    /\ failures' = failures + 1
    /\ UNCHANGED <<store, today, cycle, fetched, recent_delete_ids,
                   duplicate_delete_ids, all_delete_ids, clean>>
    /\ UNCHANGED <<admVars, sweepVars>>

(* --------------------------- input pools ------------------------------- *)

\* Document ids, deliberately not listed in their sort order.
IdPool ==
    << <<"a">>, <<"B">>, <<"a", "0">>, <<"b">>, <<"1", "0">>, <<"A">>, <<"b", "1">>,
       <<"0">>, <<"a", "a">>, <<"B", "0">>, <<"b", "b">>, <<"1">>, <<"A", "1">>,
       <<"0", "0">>, <<"a", "b">>, <<"B", "a">> >>

\* moreInfoLink values that take every date of DatePool.
LinkPool == { <<"L">>, <<"M">> }

\* "L " is the link "L" after strip().
PaddedLink == <<"L", " ">>

\* " " is not empty as stored and is empty after strip().
BlankLink == <<" ">>

\* 2024-02-26: older than the cutoff.
OldDate == <<"2","0","2","4","-","0","2","-","2","6">>

\* 2024-02-28: the cutoff day itself.
CutoffDate == <<"2","0","2","4","-","0","2","-","2","8">>

\* date-posted values: 2024-02-26, " 2024-02- 5" (older; padded, and its day
\* written as strptime's %d also accepts it, a blank and one digit), 2024-02-28,
\* and 2024-02-30 (no such day).
DatePool ==
    { OldDate,
      <<" ","2","0","2","4","-","0","2","-"," ","5">>,
      CutoffDate,
      <<"2","0","2","4","-","0","2","-","3","0">> }

\* A document's fields; an empty option set leaves the key out.
MkData(lo, do) ==
    [k \in {x \in {"moreInfoLink", "date-posted"} :
                (x = "moreInfoLink" /\ lo # {}) \/ (x = "date-posted" /\ do # {})}
       |-> IF k = "moreInfoLink" THEN (CHOOSE v \in lo : TRUE) ELSE (CHOOSE v \in do : TRUE)]

\* Every link of LinkPool with every date; the padded link and the missing link
\* with an old date and with the cutoff day; the blank link with an old date.
DataPool ==
    {MkData({l}, {d}) : l \in LinkPool, d \in DatePool}
    \cup {MkData(lo, {d}) : lo \in {{PaddedLink}, {}}, d \in {OldDate, CutoffDate}}
    \cup {MkData({BlankLink}, {OldDate})}

\* date-posted values around the horizon of 90 days before 2024-03-01: 91 and
\* 90 days old, 89 days old (padded), and no such day.
SweepDatePool ==
    { <<"2","0","2","3","-","1","2","-","0","1">>,
      <<"2","0","2","3","-","1","2","-","0","2">>,
      <<" ","2","0","2","3","-","1","2","-","0","3"," ">>,
      <<"2","0","2","3","-","1","1","-","3","1">> }

\* Every date with the link "L" (so that records share their link), a record
\* without a link (dated "2023-12- 1", 91 days old, the day written with a
\* blank) and a record without a date.
SweepDataPool ==
    {MkData({<<"L">>}, {d}) : d \in SweepDatePool}
    \cup {MkData({}, {<<"2","0","2","3","-","1","2","-"," ","1">>}),
          MkData({<<"L">>}, {})}

\* The day the purge runs: 2024-03-01, so the cutoff is 2024-02-28 of a leap year.
Today0 == ToOrdinal(2024, 3, 1)

\* The URLs the channel may supply: the regex of line 31 admits no whitespace, and
\* line 882 keeps only URLs that contain one of the two target domains.
UrlPool ==
    << <<"https://", "fresheropenings.com", "/a">>,
       <<"https://", "freshersrecruitment.co.in", "/b">>,
       <<"https://", "fresheropenings.com", "/c">>,
       <<"https://", "freshersrecruitment.co.in", "/d">> >>

Urls == {UrlPool[k] : k \in 1..MaxUrls}

(* ------------------- harbour_scraper: seen-set file -------------------- *)

\* Mutant of load_processed_urls: the file is taken to be empty.
load_processed_urls_none(f) == {}

\* load_processed_urls(): the stripped, non-empty lines of the file (an absent
\* file reads as no lines).
load_processed_urls(f) == {Strip(f[k]) : k \in 1..Len(f)} \ {<<>>}

\* Mutant of append_processed_url: the line stays in a buffer of the process.
append_processed_url_buffered(f, u) == f

\* append_processed_url(url): one more line, url.strip(); the file is opened,
\* written and closed inside the call (819-821).
append_processed_url(f, u) == Append(f, Strip(u))

(* ------------------ harbour_scraper: existence gate -------------------- *)

\* Mutant of job_exists_for_url: a failed query counts as "exists".
job_exists_fail_closed(u, st, query_fails) ==
    IF query_fails THEN TRUE
    ELSE \E d \in st : "moreInfoLink" \in DOMAIN d.data /\ d.data["moreInfoLink"] = u

\* Mutant of job_exists_for_url: the query matches no document.
job_exists_never(u, st, query_fails) == FALSE

\* job_exists_for_url(url): True on a first match of moreInfoLink == url, False
\* when there is none and also when the query or its stream raises.
job_exists_for_url(u, st, query_fails) ==
    IF query_fails THEN FALSE
    ELSE \E d \in st : "moreInfoLink" \in DOMAIN d.data /\ d.data["moreInfoLink"] = u

(* --------------------- harbour_scraper: scraping ----------------------- *)

\* The two TARGET_DOMAINS.
FresherOpenings == "fresheropenings.com"
FreshersRecruitment == "freshersrecruitment.co.in"

\* `domain in url`
Contains(u, chunk) == \E k \in 1..Len(u) : u[k] = chunk

\* What scraping returns for a page that could not be fetched: None.
NoJob == [k \in {} |-> <<>>]

\* datetime.now().strftime("%Y-%m-%d") on the day of the model, 2024-03-01.
TodayStr == <<"2","0","2","4","-","0","3","-","0","1">>

\* The decimal digit of n, 0 <= n <= 9.
DigitChar(n) == Alphabet[n + 1]

\* What the company cell of a page's table may hold: no such cell (<<>>),
\* "   ", " n/a" and "Ac".
CompanyCellPool == { <<>>, <<" ", " ", " ">>, <<" ", "n", "/", "a">>, <<"A", "c">> }

\* The text of the first h1/h2 of a page, a word being one element: no such
\* tag (<<>>), "Ac Hiring 2024", "n/a Jobs", "Ac  walk-in|x" and
\* "Ac Off-Campus".
TitlePool ==
    { <<>>,
      <<"A", "c", " ", "Hiring", " ", "2", "0", "2", "4">>,
      <<"n", "/", "a", " ", "Jobs">>,
      <<"A", "c", " ", " ", "walk-in", "|", "x">>,
      <<"A", "c", " ", "Off-Campus">> }

\* The words the title pattern of lines 357-358 ends on, under IGNORECASE in
\* the spellings the titles use: Walk-?in, Off\s*Campus, Recruitment, Hiring,
\* Jobs, Careers.
TitleKeywordsFresherOpenings ==
    { "Walk-in", "walk-in", "Walkin", "walkin", "Off Campus", "off campus", "OffCampus",
      "offcampus", "Recruitment", "recruitment", "Hiring", "hiring", "Jobs", "jobs",
      "Careers", "careers" }

\* Lines 649-650: the same pattern with Off-Campus added.
TitleKeywordsFreshersRecruitment ==
    TitleKeywordsFresherOpenings \cup {"Off-Campus", "off-campus"}

\* The elements of a text that are no word characters (\W).
NonWord == Whitespace \cup {",", "/", "-", "|", ":", "."}

\* The index after the run of whitespace that starts at k (k when there is none).
RECURSIVE SkipSpace(_, _)
SkipSpace(text, k) ==
    IF k <= Len(text) /\ text[k] \in Whitespace THEN SkipSpace(text, k + 1) ELSE k

\* The index after the run of digits that starts at k (k when there is none).
RECURSIVE SkipDigits(_, _)
SkipDigits(text, k) ==
    IF k <= Len(text) /\ text[k] \in Digits THEN SkipDigits(text, k + 1) ELSE k

\* Lines 354-363: re.match(r'^(.+?)\s+(keyword)\b', title_text, IGNORECASE) on
\* the stripped title; group(1) is the shortest prefix (without a newline)
\* that whitespace and a keyword at a word boundary follow, stripped; <<>> when
\* the pattern does not match.
company_from_title(title, keywords) ==
    LET t == Strip(title)
        J == {j \in 1..Len(t) :
                 /\ \A i \in 1..j : t[i] # "\n"
                 /\ LET k == SkipSpace(t, j + 1)
                    IN  /\ k > j + 1
                        /\ k <= Len(t)
                        /\ t[k] \in keywords
                        /\ k = Len(t) \/ t[k + 1] \in NonWord}
    IN  IF J = {} THEN <<>>
        ELSE Strip(SubSeq(t, 1, CHOOSE j \in J : \A i \in J : j <= i))

\* job_data["company"]: the cell's get_text(strip=True) (244, 262); when the
\* table gave none, the company of the title (354-363); when that gave none
\* either, the default "N/A" of the `defaults` loop (501-511).
company_of(cell, title, keywords) ==
    IF Strip(cell) # <<>> THEN Strip(cell)
    ELSE IF company_from_title(title, keywords) # <<>>
    THEN company_from_title(title, keywords)
    ELSE <<"N", "/", "A">>

\* MONTH_RE, line 204.
MonthNames ==
    <<"January", "February", "March", "April", "May", "June", "July", "August",
      "September", "October", "November", "December">>

\* The text nodes of a page in document order, a word being one element: no
\* text; "February 30, 2024" (no such day); "Posted on November  30,\n20235"
\* (the date inside the text, 92 days before the day of the model); a page
\* whose first text is "March 123, 2024" and whose second is "March 1, 2024";
\* and "March 1, 0999".
PageDatePool ==
    { <<>>,
      << <<"February", " ", "3", "0", ",", " ", "2", "0", "2", "4">> >>,
      << <<"Posted", " ", "on", " ", "November", " ", " ", "3", "0", ",", "\n",
           "2", "0", "2", "3", "5">> >>,
      << <<"March", " ", "1", "2", "3", ",", " ", "2", "0", "2", "4">>,
         <<"March", " ", "1", ",", " ", "2", "0", "2", "4">> >>,
      << <<"March", " ", "1", ",", " ", "0", "9", "9", "9">> >> }

\* Line 209 at one place of a text: the index of the last element of a match
\* of MONTH_RE\s+\d{1,2},\s+\d{4} that starts at i, 0 when there is none.
date_match_end(text, i) ==
    LET a == SkipSpace(text, i + 1)
        b == SkipDigits(text, a)
        d == SkipSpace(text, b + 1)
    IN  IF /\ \E k \in 1..Len(MonthNames) : MonthNames[k] = text[i]
           /\ a > i + 1
           /\ b - a \in {1, 2}
           /\ b <= Len(text) /\ text[b] = ","
           /\ d > b + 1
           /\ d + 3 <= Len(text) /\ IsDigits(SubSeq(text, d, d + 3))
        THEN d + 3
        ELSE 0

\* Line 209: re.search on one text, m.group(0) of the leftmost match, <<>>
\* when the text has none.
date_search(text) ==
    LET I == {i \in 1..Len(text) : date_match_end(text, i) # 0}
    IN  IF I = {} THEN <<>>
        ELSE LET i == CHOOSE i \in I : \A j \in I : i <= j
             IN  SubSeq(text, i, date_match_end(text, i))

\* Lines 207-212: date_str, the match of the first text that has one; <<>>
\* (None) when no text has one.
RECURSIVE first_date_str(_)
first_date_str(texts) ==
    IF texts = <<>> THEN <<>>
    ELSE IF date_search(Head(texts)) # <<>> THEN date_search(Head(texts))
    ELSE first_date_str(Tail(texts))

\* The decimal digits of n > 0, without leading zeros.
RECURSIVE Decimal(_)
Decimal(n) == IF n < 10 THEN <<DigitChar(n)>> ELSE Append(Decimal(n \div 10), DigitChar(n % 10))

\* strftime("%Y-%m-%d"): month and day in two digits; the C library the code
\* runs on writes the year as it is, without leading zeros.
strftime_ymd(y, m, d) ==
    Decimal(y) \o <<"-", DigitChar(m \div 10), DigitChar(m % 10), "-",
                    DigitChar(d \div 10), DigitChar(d % 10)>>

\* Lines 214-219: strptime(date_str, "%B %d, %Y") on a match of line 209 and
\* strftime of the result; <<>> when strptime raises: a day that %d does not
\* take (0, 00, above 31), a day the month does not have, or the year 0000.
strptime_strftime(date_str) ==
    LET a == SkipSpace(date_str, 2)
        b == SkipDigits(date_str, a)
        m == CHOOSE k \in 1..Len(MonthNames) : MonthNames[k] = date_str[1]
        dd == ToInt(SubSeq(date_str, a, b - 1))
        y == ToInt(SubSeq(date_str, Len(date_str) - 3, Len(date_str)))
    IN  IF y < 1 \/ dd \notin 1..DaysInMonth(y, m) THEN <<>>
        ELSE strftime_ymd(y, m, dd)

\* extract_post_date (206-221): the first "Month D, YYYY" of the page's texts
\* is parsed and written as "%Y-%m-%d"; without such a text, or when strptime
\* raises, the result is today's date.
extract_post_date(texts, now_str) ==
    LET date_str == first_date_str(texts)
    IN  IF date_str = <<>> THEN now_str
        ELSE IF strptime_strftime(date_str) = <<>> THEN now_str
        ELSE strptime_strftime(date_str)

\* The companies scrape_job_data_fresheropenings can return over the pools.
CompaniesFresherOpenings ==
    {company_of(cell, title, TitleKeywordsFresherOpenings) :
        cell \in CompanyCellPool, title \in TitlePool}

\* The companies scrape_job_data_freshers_recruitment can return over the pools.
CompaniesFreshersRecruitment ==
    {company_of(cell, title, TitleKeywordsFreshersRecruitment) :
        cell \in CompanyCellPool, title \in TitlePool}

\* The dates extract_post_date can return over the pool, on the day of the model.
PostDates == {extract_post_date(texts, TodayStr) : texts \in PageDatePool}

\* scrape_job_data_fresheropenings(url): None when the page cannot be fetched, or
\* a record dated today (line 234).
scrape_job_data_fresheropenings(u) ==
    {NoJob} \cup
    {[k \in {"company", "date-posted", "moreInfoLink"} |->
         IF k = "company" THEN c
         ELSE IF k = "date-posted" THEN TodayStr ELSE u]
       : c \in CompaniesFresherOpenings}

\* scrape_job_data_freshers_recruitment(url): None when the page cannot be
\* fetched, or a record dated by extract_post_date (line 526).
scrape_job_data_freshers_recruitment(u) ==
    {NoJob} \cup
    {[k \in {"company", "date-posted", "moreInfoLink"} |->
         IF k = "company" THEN c
         ELSE IF k = "date-posted" THEN dp ELSE u]
       : c \in CompaniesFreshersRecruitment, dp \in PostDates}

\* str.upper() on the letters company names use.
LowerChars == <<"a", "c", "n">>
UpperChars == <<"A", "C", "N">>
UpperChar(c) ==
    IF \E k \in 1..Len(LowerChars) : LowerChars[k] = c
    THEN UpperChars[CHOOSE k \in 1..Len(LowerChars) : LowerChars[k] = c]
    ELSE c
Upper(s) == [k \in 1..Len(s) |-> UpperChar(s[k])]

\* Mutant of company_missing: "N/A" is compared without upper().
company_missing_exact(jd) ==
    LET company_val == Strip(OrElse(Get(jd, "company", <<>>), <<>>))
    IN  company_val = <<>> \/ company_val = <<"N", "/", "A">>

\* Lines 1008-1009: company_val empty or "N/A" after strip and upper.
company_missing(jd) ==
    LET company_val == Strip(OrElse(Get(jd, "company", <<>>), <<>>))
    IN  company_val = <<>> \/ Upper(company_val) = <<"N", "/", "A">>

\* The fields of job_data the Jobs document is modelled with (the payload fields
\* take no part in gate or purge).
stored_fields(jd) == [k \in {"moreInfoLink", "date-posted"} |-> jd[k]]

\* The id Firestore gives a new document: one that no document of the given set
\* has (the store and the documents a running sweep still holds references to).
auto_id(st) ==
    IdPool[CHOOSE k \in 1..Len(IdPool) :
              /\ \A d \in st : d.id # IdPool[k]
              /\ \A j \in 1..(k - 1) : \E d \in st : d.id = IdPool[j]]

(* ------------------- harbour_scraper.main: one run --------------------- *)

\* The for loop of line 985 goes on, or main returns after the last URL.
next_iteration(left) == IF left = {} THEN "finished" ELSE "loop"

\* Mutant of new_urls: the seen-set filter is lost.
new_urls_unfiltered(all_urls, seen) == all_urls

\* Line 976: new_urls = [u for u in all_urls if u not in processed]
new_urls(all_urls, seen) == {u \in all_urls : u \notin seen}

\* Mutant of after_gate: an existing record does not stop the scrape.
after_gate_always_scrape(exists) == "scrape"

\* Lines 989-992: a URL the gate reports as existing is only marked.
after_gate(exists) == IF exists THEN "mark" ELSE "scrape"

\* Lines 994-1001: the scraper is chosen by the domain in the URL; a URL of neither
\* domain is scraped by nothing.
scrape(u) ==
    IF Contains(u, FresherOpenings) THEN scrape_job_data_fresheropenings(u)
    ELSE IF Contains(u, FreshersRecruitment) THEN scrape_job_data_freshers_recruitment(u)
    ELSE {NoJob}

\* Mutant of after_scrape: a failed scrape is not marked, the loop just goes on.
after_scrape_retry(jd) ==
    IF jd = NoJob THEN "loop"
    ELSE IF company_missing(jd) THEN "mark" ELSE "insert"

\* Mutant of after_scrape: a usable record is marked seen before its insert.
after_scrape_mark_first(jd) ==
    IF jd = NoJob \/ company_missing(jd) THEN "mark" ELSE "mark_inserted"

\* Lines 1003-1014: no record, or no company: mark and continue; else insert.
after_scrape(jd) ==
    IF jd = NoJob \/ company_missing(jd) THEN "mark" ELSE "insert"

\* Mutant of after_notify: a notification that was not sent skips the mark.
after_notify_sent_only(res, left) ==
    IF res = "sent" THEN "mark_inserted" ELSE next_iteration(left)

\* Lines 1020-1031: whatever the notifier did, line 1031 is next.
after_notify(res, left) == "mark_inserted"

\* Lines 1032-1034: the handler of the insert also catches a failed append of
\* line 1031; the loop goes on with the next URL.
after_swallowed_append(left) == IF left = {} THEN "finished" ELSE "loop"

\* One call of a collaborator, as the run made it.
Event(op, u, res) == [op |-> op, url |-> u, res |-> res]

\* No run of main is under way: none has started, or the last one returned,
\* ended on an exception, or was killed.
BetweenRuns == apc \in {"idle", "finished", "aborted", "crashed"}

\* Lines 927-930 and 957: the stream of the run's delete_old_jobs(3) call ends
\* (nothing is left to deliver) or raises into the outer handler; the call logs
\* and returns, and its locals are gone.
SweepReturn ==
    /\ apc = "sweeping"
    /\ spc = "streaming"
    /\ spc' = "idle"
    /\ months' = 0
    /\ cutoff' = [day |-> 0, after_midnight |-> FALSE]
    /\ to_check' = {}
    /\ checked' = 0
    /\ deleted' = 0
    /\ sweep_fetched' = {}
    /\ sweep_failed' = {}
    /\ UNCHANGED sweeps

\* Lines 927-972: the sweep returns; the channel has no job URL (or the
\* dialog is not found, 960-964) and main returns before the seen-set is read.
RunNoUrls ==
    /\ SweepReturn
    /\ run' = run + 1
    /\ apc' = "finished"
    /\ processed' = {}
    /\ todo' = {}
    /\ url' = <<>>
    /\ job_data' = NoJob
    /\ log' = <<>>
    /\ UNCHANGED <<store, today, cleanupVars, inserted, seen_file>>

\* Lines 927-975: the sweep returns and the channel gives URLs; reading
\* processed_urls.txt raises; the exception leaves main and is logged by the
\* entry point (1043-1044).
RunLoadFails ==
    /\ SweepReturn
    /\ seen_file # <<>>
    /\ run' = run + 1
    /\ apc' = "aborted"
    /\ processed' = {}
    /\ todo' = {}
    /\ url' = <<>>
    /\ job_data' = NoJob
    /\ log' = <<Event("load", <<>>, "error")>>
    /\ UNCHANGED <<store, today, cleanupVars, inserted, seen_file>>

\* Lines 927-982: the sweep returns; the channel gives a non-empty set of
\* URLs; the seen-set is loaded and the URLs in it are filtered out.
RunStart ==
    /\ SweepReturn
    /\ \E all_urls \in (SUBSET Urls) \ {{}} :
         /\ processed' = load_processed_urls(seen_file)
         /\ todo' = new_urls(all_urls, load_processed_urls(seen_file))
         /\ apc' = next_iteration(new_urls(all_urls, load_processed_urls(seen_file)))
    /\ run' = run + 1
    /\ url' = <<>>
    /\ job_data' = NoJob
    /\ log' = <<Event("load", <<>>, "ok")>>
    /\ UNCHANGED <<store, today, cleanupVars, inserted, seen_file>>

\* Lines 985-992: the next URL of new_urls (a list made from a set: any order) is
\* put to the existence gate.
GateStep ==
    /\ apc = "loop"
    /\ \E u \in todo : \E query_fails \in BOOLEAN :
         /\ url' = u
         /\ todo' = todo \ {u}
         /\ log' = <<Event("gate", u,
                      IF query_fails THEN "error"
                      ELSE IF job_exists_for_url(u, store, FALSE) THEN "true" ELSE "false")>>
         /\ apc' = after_gate(job_exists_for_url(u, store, query_fails))
    /\ UNCHANGED <<store, today, cleanupVars, sweepVars, inserted, seen_file, run, processed,
                   job_data>>

\* Lines 994-1012: the page is scraped and the company checked.
ScrapeStep ==
    /\ apc = "scrape"
    /\ \E jd \in scrape(url) :
         /\ job_data' = IF after_scrape(jd) = "insert" THEN jd ELSE NoJob
         /\ log' = Append(log, [op |-> "scrape", url |-> url,
                                  res |-> IF jd = NoJob THEN "none"
                                          ELSE IF company_missing(jd) THEN "no_company"
                                          ELSE "record",
                                  company |-> Get(jd, "company", <<>>)])
         /\ apc' = after_scrape(jd)
    /\ UNCHANGED <<store, today, cleanupVars, sweepVars, inserted, seen_file, run, processed,
                   todo, url>>

\* Lines 991, 1000, 1005, 1011: append_processed_url succeeds; continue.
MarkOk ==
    /\ apc = "mark"
    /\ seen_file' = append_processed_url(seen_file, url)
    /\ log' = Append(log, Event("append", url, "ok"))
    /\ apc' = next_iteration(todo)
    /\ url' = <<>>
    /\ job_data' = NoJob
    /\ UNCHANGED <<store, today, cleanupVars, sweepVars, inserted, run, processed, todo>>

\* Lines 991, 1000, 1005, 1011: append_processed_url raises outside any try; the
\* exception leaves main and ends the run.
MarkRaises ==
    /\ apc = "mark"
    /\ log' = Append(log, Event("append", url, "error"))
    /\ apc' = "aborted"
    /\ url' = <<>>
    /\ job_data' = NoJob
    /\ UNCHANGED <<store, today, cleanupVars, sweepVars, inserted, seen_file, run, processed, todo>>

\* Line 1016: db.collection("Jobs").add(job_data) succeeds.
InsertOk ==
    /\ apc = "insert"
    /\ \E new_id \in {auto_id(store \cup fetched \cup sweep_fetched)} :
         /\ store' = store \cup {[id |-> new_id, data |-> stored_fields(job_data)]}
         /\ log' = Append(log, [op |-> "insert", url |-> url, res |-> "ok", id |-> new_id])
    /\ apc' = "notify"
    /\ inserted' = inserted \cup {url}
    /\ UNCHANGED <<today, cleanupVars, sweepVars, seen_file, run, processed, todo, url, job_data>>

\* Lines 1016, 1032-1034: the add raises; the handler logs it and the loop goes on.
InsertRaises ==
    /\ apc = "insert"
    /\ log' = Append(log, Event("insert", url, "error"))
    /\ apc' = next_iteration(todo)
    /\ url' = <<>>
    /\ job_data' = NoJob
    /\ UNCHANGED <<store, today, cleanupVars, sweepVars, inserted, seen_file, run, processed, todo>>

\* Lines 1020-1028: the notifier returns True or False (it catches its own
\* exceptions, 155-158); an exception from it would be caught at 1026.
NotifyStep ==
    /\ apc = "notify"
    /\ \E res \in {"sent", "failed", "raised"} :
         /\ log' = Append(log, Event("notify", url, res))
         /\ apc' = after_notify(res, todo)
    /\ UNCHANGED <<store, today, cleanupVars, sweepVars, inserted, seen_file, run, processed,
                   todo, url, job_data>>

\* Line 1031: append_processed_url succeeds after the insert.
MarkInsertedOk ==
    /\ apc = "mark_inserted"
    /\ seen_file' = append_processed_url(seen_file, url)
    /\ log' = Append(log, Event("append", url, "ok"))
    /\ apc' = next_iteration(todo)
    /\ url' = <<>>
    /\ job_data' = NoJob
    /\ UNCHANGED <<store, today, cleanupVars, sweepVars, inserted, run, processed, todo>>

\* Lines 1031-1034: append_processed_url raises inside the try of line 1014; the
\* handler of line 1032 logs "Failed to write to Firestore" and the loop goes on.
MarkInsertedRaises ==
    /\ apc = "mark_inserted"
    /\ log' = Append(log, Event("append", url, "error"))
    /\ apc' = after_swallowed_append(todo)
    /\ url' = <<>>
    /\ job_data' = NoJob
    /\ UNCHANGED <<store, today, cleanupVars, sweepVars, inserted, seen_file, run, processed, todo>>

\* The process is killed inside a loop iteration: no statement of main runs
\* after that, so an insert that had succeeded stays without its append.
RunInterrupted ==
    /\ apc \in {"mark", "scrape", "insert", "notify", "mark_inserted"}
    /\ log' = Append(log, Event("interrupt", url, "killed"))
    /\ apc' = "crashed"
    /\ url' = <<>>
    /\ job_data' = NoJob
    /\ UNCHANGED <<store, today, cleanupVars, sweepVars, inserted, seen_file, run, processed, todo>>

(* ------------------ harbour_scraper.delete_old_jobs -------------------- *)

\* The `months` argument is counted in half months, so that the default of
\* line 897, 1.5, is a whole number.
HalfMonthsPerMonth == 2

\* Line 897: months = 1.5
DefaultMonths == 3

\* Line 957: delete_old_jobs(3)
MainMonths == 6

\* Line 902: days = 90 * months // 3 if months != 3 else 90
horizon_days(m) ==
    IF m # 3 * HalfMonthsPerMonth THEN (90 * m) \div (3 * HalfMonthsPerMonth) ELSE 90

\* Line 902: cutoff = datetime.now() - timedelta(days); the time of day of now
\* is kept as "midnight or later than midnight".
sweep_cutoff(now, after_midnight, m) ==
    [day |-> now - horizon_days(m), after_midnight |-> after_midnight]

\* Lines 911-918: dp = data.get("date-posted", "").strip(); None when dp is empty
\* or strptime(dp, "%Y-%m-%d") raises.
sweep_date(doc) == parse_date_safe(Strip(Get(doc.data, "date-posted", <<>>)))

\* Mutant of before_cutoff: the day of the cutoff counts as old at any time.
before_cutoff_whole_day(dt, c) == dt <= c.day

\* Line 920: dt < cutoff, dt being midnight of its day.
before_cutoff(dt, c) == dt < c.day \/ (dt = c.day /\ c.after_midnight)

\* Lines 912-920: the document is one the sweep deletes.
is_old(doc, c) == \E dt \in {sweep_date(doc)} : dt # None /\ before_cutoff(dt, c)

\* Lines 897-907: a call with the argument m computes its cutoff (at any time
\* of day) and opens the stream.
OpenSweep(m) ==
    /\ sweeps' = sweeps + 1
    /\ \E after_midnight \in BOOLEAN :
         /\ months' = m
         /\ cutoff' = sweep_cutoff(today, after_midnight, m)
    /\ to_check' = store
    /\ sweep_fetched' = store
    /\ checked' = 0
    /\ deleted' = 0
    /\ sweep_failed' = {}
    /\ spc' = "streaming"

\* delete_old_jobs called on its own, with its default argument or with the
\* argument of line 957.
SweepStart ==
    /\ spc \in {"idle", "done", "failed"}
    /\ apc = "idle"
    /\ sweeps < MaxSweeps
    /\ \E m \in {DefaultMonths, MainMonths} : OpenSweep(m)
    /\ UNCHANGED <<store, today, cleanupVars, admVars>>

\* Lines 934-957: a run of main starts (a new process: no locals of an earlier
\* run) and, before it reads the channel, calls delete_old_jobs(3).
RunCallsSweep ==
    /\ BetweenRuns
    /\ spc = "idle"
    /\ run < MaxRuns
    /\ OpenSweep(MainMonths)
    /\ apc' = "sweeping"
    /\ processed' = {}
    /\ todo' = {}
    /\ url' = <<>>
    /\ job_data' = NoJob
    /\ log' = <<>>
    /\ UNCHANGED <<store, today, cleanupVars, seen_file, run, inserted>>

\* Lines 908-920: the stream delivers a document the sweep leaves alone: no
\* date, no parsable date, or a date not before the cutoff.
SweepSkip ==
    /\ spc = "streaming"
    /\ \E doc \in to_check :
         /\ ~is_old(doc, cutoff)
         /\ to_check' = to_check \ {doc}
    /\ checked' = checked + 1
    /\ UNCHANGED <<store, today, cleanupVars, admVars, spc, sweeps, months, cutoff,
                   deleted, sweep_fetched, sweep_failed>>

\* Lines 920-924: an old document is delivered and its delete succeeds.
SweepDeleteOk ==
    /\ spc = "streaming"
    /\ \E doc \in to_check :
         /\ is_old(doc, cutoff)
         /\ to_check' = to_check \ {doc}
         /\ store' = {d \in store : d.id # doc.id}
    /\ checked' = checked + 1
    /\ deleted' = deleted + 1
    /\ UNCHANGED <<today, cleanupVars, admVars, spc, sweeps, months, cutoff,
                   sweep_fetched, sweep_failed>>

\* Lines 920-926: an old document is delivered and its delete raises; the
\* handler logs it and the loop goes on.
SweepDeleteFails ==
    /\ spc = "streaming"
    /\ \E doc \in to_check :
         /\ is_old(doc, cutoff)
         /\ to_check' = to_check \ {doc}
         /\ sweep_failed' = sweep_failed \cup {doc.id}
    /\ checked' = checked + 1
    /\ UNCHANGED <<store, today, cleanupVars, admVars, spc, sweeps, months, cutoff,
                   deleted, sweep_fetched>>

\* Line 927: the stream is exhausted; the totals are logged.
SweepEnd ==
    /\ spc = "streaming"
    /\ to_check = {}
    /\ spc' = "done"
    /\ UNCHANGED <<store, today, cleanupVars, admVars, sweeps, months, cutoff, to_check,
                   checked, deleted, sweep_fetched, sweep_failed>>

\* Lines 907-908, 928-930: the query or its stream raises; the outer handler
\* logs the exception and the function returns without the totals.
SweepStreamFails ==
    /\ spc = "streaming"
    /\ spc' = "failed"
    /\ UNCHANGED <<store, today, cleanupVars, admVars, sweeps, months, cutoff, to_check,
                   checked, deleted, sweep_fetched, sweep_failed>>

\* delete_old_jobs has not been called.
SweepIdle ==
    /\ spc = "idle"
    /\ sweeps = 0
    /\ months = 0
    /\ cutoff = [day |-> 0, after_midnight |-> FALSE]
    /\ to_check = {}
    /\ checked = 0
    /\ deleted = 0
    /\ sweep_fetched = {}
    /\ sweep_failed = {}

(* --------------------- purge over arbitrary stores --------------------- *)

\* Nothing of the cleanup script has run.
CleanupIdle ==
    /\ cpc = "idle"
    /\ cycle = 0
    /\ fetched = {}
    /\ recent_delete_ids = {}
    /\ duplicate_delete_ids = {}
    /\ all_delete_ids = {}
    /\ pending = {}
    /\ failures = 0
    /\ failed_ids = {}
    /\ clean = TRUE

\* No run of harbour_scraper.main has started.
AdmissionIdle ==
    /\ seen_file = <<>>
    /\ apc = "idle"
    /\ run = 0
    /\ processed = {}
    /\ todo = {}
    /\ url = <<>>
    /\ job_data = NoJob
    /\ log = <<>>
    /\ inserted = {}

InitPurge ==
    /\ \E n \in 0..MaxDocs :
         \E f \in [{IdPool[k] : k \in 1..n} -> DataPool] :
            store = {[id |-> i, data |-> f[i]] : i \in DOMAIN f}
    /\ today = Today0
    /\ cpc = "idle"
    /\ cycle = 0
    /\ fetched = {}
    /\ recent_delete_ids = {}
    /\ duplicate_delete_ids = {}
    /\ all_delete_ids = {}
    /\ pending = {}
    /\ failures = 0
    /\ failed_ids = {}
    /\ clean = TRUE
    /\ AdmissionIdle
    /\ SweepIdle

NextPurge ==
    \/ CleanupScan
    \/ CleanupScanFails
    \/ CleanupDeleteOk
    \/ CleanupDeleteFails

SpecPurge == InitPurge /\ [][NextPurge]_vars

(* ---------------------- age sweep over arbitrary stores ---------------- *)

InitSweep ==
    /\ \E n \in 0..MaxDocs :
         \E f \in [{IdPool[k] : k \in 1..n} -> SweepDataPool] :
            store = {[id |-> i, data |-> f[i]] : i \in DOMAIN f}
    /\ today = Today0
    /\ CleanupIdle
    /\ AdmissionIdle
    /\ SweepIdle

NextSweep ==
    \/ SweepStart
    \/ SweepSkip
    \/ SweepDeleteOk
    \/ SweepDeleteFails
    \/ SweepEnd
    \/ SweepStreamFails

SpecSweep == InitSweep /\ [][NextSweep]_vars

(* ------------------------- admission runs ------------------------------ *)

\* The record another environment stored for the k-th URL.
foreign_doc(k) == [id |-> IdPool[k], data |-> MkData({UrlPool[k]}, {OldDate})]

\* A fresh environment (no processed_urls.txt yet) over a store that may already
\* hold records of other environments for some of the URLs.
Init ==
    /\ \E K \in SUBSET (1..MaxUrls) : store = {foreign_doc(k) : k \in K}
    /\ today = Today0
    /\ CleanupIdle
    /\ AdmissionIdle
    /\ SweepIdle

Next ==
    \/ RunCallsSweep
    \/ SweepSkip
    \/ SweepDeleteOk
    \/ SweepDeleteFails
    \/ RunNoUrls
    \/ RunLoadFails
    \/ RunStart
    \/ GateStep
    \/ ScrapeStep
    \/ MarkOk
    \/ MarkRaises
    \/ InsertOk
    \/ InsertRaises
    \/ NotifyStep
    \/ MarkInsertedOk
    \/ MarkInsertedRaises

Spec == Init /\ [][Next]_vars

(* ------------- admission runs and purge cycles interleaved ------------- *)

\* A step of the cleanup script while the scraper exists; the script is
\* started at most MaxCrashCycles times.
PurgeBeside ==
    \/ cycle < MaxCrashCycles /\ CleanupScan
    \/ cycle < MaxCrashCycles /\ CleanupScanFails
    \/ CleanupDeleteOk
    \/ CleanupDeleteFails

\* The scraper process (runs of main, which can be killed inside the loop) and
\* the cleanup script, step by step in any interleaving.
NextCrash ==
    \/ Next
    \/ RunInterrupted
    \/ PurgeBeside

SpecCrash == Init /\ [][NextCrash]_vars

(* ------ runs that are not killed and whose seen-set writes succeed ----- *)

\* The steps of main in an environment where append_processed_url never raises
\* and the process is never killed; the sweep, the gate, the scrape, the add
\* and the notifier may still fail.
OrderlyRun ==
    \/ RunCallsSweep
    \/ SweepSkip
    \/ SweepDeleteOk
    \/ SweepDeleteFails
    \/ RunNoUrls
    \/ RunLoadFails
    \/ RunStart
    \/ GateStep
    \/ ScrapeStep
    \/ MarkOk
    \/ InsertOk
    \/ InsertRaises
    \/ NotifyStep
    \/ MarkInsertedOk

\* Such runs, one after another, with the steps of purge cycles in between and
\* during them.
NextOrderly ==
    \/ OrderlyRun
    \/ NextPurge

SpecOrderly == Init /\ [][NextOrderly]_vars

(* ------------------- vocabulary of the purge claims -------------------- *)

\* The sourceLink as stored.
RawLink(d) == Get(d.data, "moreInfoLink", <<>>)

\* The sourceLink with surrounding whitespace trimmed.
TrimmedLink(d) == Strip(RawLink(d))

\* The datePosted of a document, None when missing or unparsable.
DatePosted(d) == parse_date_safe(Get(d.data, "date-posted", <<>>))

\* datePosted parses and is on or after (today - 2 days).
Recent(d) == DatePosted(d) # None /\ DatePosted(d) + RecentDays >= today

\* Ascending (datePosted, id), unknown dates after all known dates.
Earlier(a, b) ==
    \/ DatePosted(a) # None /\ DatePosted(b) = None
    \/ DatePosted(a) # None /\ DatePosted(b) # None /\ DatePosted(a) < DatePosted(b)
    \/ DatePosted(a) = DatePosted(b) /\ StrLess(a.id, b.id)

\* The members of S that precede every other member of S.
Earliest(S) == {e \in S : \A f \in S \ {e} : Earlier(e, f)}

\* The documents of the scan that share d's link exactly / after trimming.
RawGroup(d) == {e \in fetched : RawLink(e) = RawLink(d)}
TrimmedGroup(d) == {e \in fetched : TrimmedLink(e) = TrimmedLink(d)}

\* A cleanup cycle has completed and none of its deletes raised.
CycleDoneClean == cpc = "done" /\ failed_ids = {}

(* C1, as the spec states it: after a purge cycle whose deletes all succeeded,   *)
(* of every group of two or more scanned records sharing one non-empty           *)
(* sourceLink exactly one record remains, the group's minimum under ascending    *)
(* (datePosted, id) with unknown dates last.                                      *)
C1_GroupMinimumSurvives ==
    CycleDoneClean =>
        \A d \in fetched :
            (RawLink(d) # <<>> /\ Cardinality(RawGroup(d)) >= 2)
                => {e \in store : e \in RawGroup(d)} = Earliest(RawGroup(d))

(* C1, amended: after a purge cycle whose deletes all succeeded, of every group  *)
(* of two or more scanned records whose sourceLink is the same non-empty string  *)
(* after trimming, every recent member (date parsed, on or after today - 2) is   *)
(* gone, and the members that are not recent, if any, are reduced to exactly     *)
(* one: their minimum under ascending (datePosted, id), unknown dates last.      *)
C1_OldestNonRecentSurvives ==
    CycleDoneClean =>
        \A d \in fetched :
            (TrimmedLink(d) # <<>> /\ Cardinality(TrimmedGroup(d)) >= 2)
                => LET nonRecent == {e \in TrimmedGroup(d) : ~Recent(e)}
                   IN  /\ {e \in store : e \in TrimmedGroup(d)} = Earliest(nonRecent)
                       /\ nonRecent # {} => Cardinality(Earliest(nonRecent)) = 1

\* A clean cycle over a group of three with a recent member and two others, one of
\* them undated: the dated old one is all that is left of the group.
C1_Witness ==
    /\ CycleDoneClean
    /\ \E d \in fetched :
         /\ TrimmedLink(d) # <<>>
         /\ Cardinality(TrimmedGroup(d)) >= 3
         /\ \E r, u, o \in TrimmedGroup(d) :
              /\ Recent(r)
              /\ DatePosted(u) = None
              /\ DatePosted(o) # None /\ ~Recent(o)
              /\ {e \in store : e \in TrimmedGroup(d)} = {o}

(* C2, as the spec states it: after a purge cycle that completes with every       *)
(* scheduled delete succeeding, no two records of the store have the same         *)
(* non-empty sourceLink, the link being read as stored.                           *)
C2_AtMostOnePerLink ==
    CycleDoneClean =>
        \A a, b \in store : (RawLink(a) # <<>> /\ RawLink(a) = RawLink(b)) => a = b

(* C2, amended: after a purge cycle that completes with every scheduled delete    *)
(* succeeding, no two records of the store have sourceLinks that are the same     *)
(* after trimming and not empty after trimming (before the cycle they may: see    *)
(* the witness).                                                                  *)
C2_AtMostOnePerTrimmedLink ==
    CycleDoneClean =>
        \A a, b \in store :
            (TrimmedLink(a) # <<>> /\ TrimmedLink(a) = TrimmedLink(b)) => a = b

\* A clean cycle whose scan saw two old records with one link, stored with and
\* without padding, and which left one of them.
C2_Witness ==
    /\ CycleDoneClean
    /\ \E a, b \in fetched :
         /\ a # b /\ RawLink(a) # RawLink(b)
         /\ TrimmedLink(a) # <<>> /\ TrimmedLink(a) = TrimmedLink(b)
         /\ ~Recent(a) /\ ~Recent(b)
         /\ a \in store /\ b \notin store

(* C3: once a purge cycle has completed, every record its scan saw whose         *)
(* datePosted parses and is on or after today - 2, and whose delete did not      *)
(* raise, is absent from the store, also when no other record has its link.      *)
C3_RecentRecordsGone ==
    cpc = "done" =>
        \A d \in fetched : (Recent(d) /\ d.id \notin failed_ids) => d \notin store

\* A completed cycle removed a record dated on the cutoff day that was the only one
\* with its link.
C3_Witness ==
    /\ cpc = "done"
    /\ \E d \in fetched :
         /\ DatePosted(d) + RecentDays = today
         /\ RawLink(d) # <<>>
         /\ TrimmedGroup(d) = {d}
         /\ d \notin store

(* C4: purge is idempotent. A cycle that follows cycles whose deletes all        *)
(* succeeded (same date, nothing admitted in between) schedules no record for    *)
(* deletion and leaves the store as the previous cycle left it.                  *)
C4_PurgeIdempotent ==
    (cycle >= 2 /\ cpc \in {"deleting", "done"} /\ clean)
        => all_delete_ids = {} /\ store = fetched

\* A second cycle has completed after a clean first one that deleted the first
\* document and kept the second.
C4_Witness ==
    /\ cycle = 2 /\ cpc = "done" /\ clean
    /\ (\E d \in store : d.id = IdPool[2])
    /\ ~(\E d \in store : d.id = IdPool[1])

(* ------------------- admission: the words of the claims ---------------- *)

\* The calls of the current URL's processing that have a given name.
Calls(op) == {k \in 1..Len(log) : log[k].op = op}

\* The URL is a line of processed_urls.txt.
InSeenSet(u) == \E j \in 1..Len(seen_file) : seen_file[j] = u

\* The URL was a line of processed_urls.txt before the processing of the
\* current URL appended anything.
InSeenSetBefore(u) ==
    \E j \in 1..(Len(seen_file)
                 - Cardinality({k \in Calls("append") : log[k].res = "ok"})) :
        seen_file[j] = u

\* The processing of a URL has ended and the loop (or main) went on.
ProcessingEnded == apc \in {"loop", "finished"} /\ Calls("gate") # {}

\* Call k is the last one made so far and the append is the next statement.
AppendIsNext(k) == k = Len(log) /\ apc \in {"mark", "mark_inserted"} /\ url = log[k].url

\* Call k was followed by the append of the same URL; when the append
\* succeeded the URL is in the seen-set, when it raised outside the try the run
\* was aborted.
AppendFollowed(k) ==
    /\ k < Len(log)
    /\ log[k + 1].op = "append"
    /\ log[k + 1].url = log[k].url
    /\ log[k + 1].res = "ok" => InSeenSet(log[k].url)

\* C5: a URL that is in the seen-set when a run starts gets no gate call, no
\* scrape call and no insert in that run: every gate, scrape and insert call
\* is for a URL that was not a line of processed_urls.txt before its own
\* processing began.
C5_SeenUrlsNeverResubmitted ==
    \A k \in Calls("gate") \cup Calls("scrape") \cup Calls("insert") :
        ~InSeenSetBefore(log[k].url)

\* A second run was given only URLs of the seen-set and ended after the load
\* without a single call.
C5_Witness ==
    /\ run = 2
    /\ apc = "finished"
    /\ processed # {}
    /\ log = <<Event("load", <<>>, "ok")>>

\* C6: when the store query of the gate fails, the gate answers false, raises
\* nothing, and the run goes on with the scrape of the same URL.
C6_GateFailsOpen ==
    \A k \in Calls("gate") :
        log[k].res = "error" =>
            \/ k = Len(log) /\ apc = "scrape" /\ url = log[k].url
            \/ k < Len(log) /\ log[k + 1].op = "scrape" /\ log[k + 1].url = log[k].url

\* The query failed for a URL that has a record in the store, and the URL was
\* scraped all the same.
C6_Witness ==
    /\ Len(log) >= 2
    /\ log[1].op = "gate" /\ log[1].res = "error"
    /\ log[2].op = "scrape"
    /\ \E d \in store : RawLink(d) = log[1].url

\* C7: for a URL outside the seen-set for which the gate answers true, the run
\* makes no scrape call and no insert, and the append is the very next
\* statement: the URL is in the seen-set when its processing ends (an append
\* that raises here ends the run instead).
C7_ExistingRecordOnlyMarked ==
    \A k \in Calls("gate") :
        log[k].res = "true" =>
            /\ Calls("scrape") \cup Calls("insert") \cup Calls("notify") = {}
            /\ ~InSeenSetBefore(log[k].url)
            /\ AppendIsNext(k) \/ AppendFollowed(k)
            /\ ProcessingEnded => InSeenSet(log[k].url)
            /\ (k < Len(log) /\ log[k + 1].res = "error") => apc = "aborted"

\* The gate answered true, the URL was appended and the loop went on.
C7_Witness ==
    /\ ProcessingEnded
    /\ Len(log) = 2
    /\ log[1].op = "gate" /\ log[1].res = "true"
    /\ log[2].op = "append" /\ log[2].res = "ok"
    /\ InSeenSet(log[1].url)

\* C8 as stated: after a scrape failure, a validation failure or a store write
\* failure the URL is in the seen-set when its processing ends.
C8_AnyFailureMarksSeen ==
    (/\ ProcessingEnded
     /\ \/ \E k \in Calls("scrape") : log[k].res \in {"none", "no_company"}
        \/ \E k \in Calls("insert") : log[k].res = "error")
        => InSeenSet(log[1].url)

\* C8: a scrape failure and a validation failure are followed at once by the
\* append of the URL, which is then in the seen-set; a store write failure is
\* followed by no append: the URL stays outside the seen-set.
C8_FailuresMarkedExceptStoreWrite ==
    /\ \A k \in Calls("scrape") :
           log[k].res \in {"none", "no_company"} =>
               /\ Calls("insert") = {}
               /\ AppendIsNext(k) \/ AppendFollowed(k)
               /\ ProcessingEnded => InSeenSet(log[k].url)
    /\ \A k \in Calls("insert") :
           log[k].res = "error" =>
               /\ k = Len(log)
               /\ ProcessingEnded
               /\ ~InSeenSet(log[k].url)

\* The store write failed for a scraped record; the loop went on and the URL is
\* not in the seen-set.
C8_Witness ==
    /\ ProcessingEnded
    /\ \E k \in Calls("insert") : log[k].res = "error" /\ ~InSeenSet(log[k].url)
    /\ \E k \in Calls("scrape") : log[k].res = "record"

\* C9: the notifier is called once after every successful insert, directly
\* after it and for the same URL, and never otherwise; when it does not send,
\* the inserted record stays in the store and the append of the URL is the
\* next statement, so the URL is in the seen-set as soon as that append
\* succeeds.
C9_NotifyOncePerInsert ==
    /\ \A k \in Calls("notify") :
           /\ k > 1
           /\ log[k - 1].op = "insert" /\ log[k - 1].res = "ok"
           /\ log[k - 1].url = log[k].url
           /\ \E d \in store : d.id = log[k - 1].id /\ RawLink(d) = log[k].url
           /\ AppendIsNext(k) \/ AppendFollowed(k)
    /\ \A k \in Calls("insert") :
           log[k].res = "ok" =>
               \/ k = Len(log) /\ apc = "notify" /\ url = log[k].url
               \/ k < Len(log) /\ log[k + 1].op = "notify"
    /\ Cardinality(Calls("notify")) <= 1

\* The notifier did not send; the record is in the store, the URL was appended
\* and the loop went on.
C9_Witness ==
    /\ ProcessingEnded
    /\ Len(log) = 5
    /\ log[3].op = "insert" /\ log[3].res = "ok"
    /\ log[4].op = "notify" /\ log[4].res \in {"failed", "raised"}
    /\ log[5].op = "append" /\ log[5].res = "ok"
    /\ InSeenSet(log[4].url)
    /\ \E d \in store : d.id = log[3].id

\* C10 as stated: when processed_urls.txt cannot be read or appended to, the
\* run fails: the failure is not swallowed and no further URL is processed.
C10_MediumFailureEndsRun ==
    (\E k \in Calls("load") \cup Calls("append") : log[k].res = "error")
        => apc = "aborted"

(* ---------------------- purge: delete loop ----------------------------- *)

\* The ids of all_delete_ids the delete loop has visited.
Attempted == all_delete_ids \ pending

\* The count line 142 reports as deleted.
ReportedDeleted == Cardinality(all_delete_ids) - failures

\* One step of the delete loop: one id not visited before is visited, and
\* either its document leaves the store or the failure count grows by one.
OneDeleteAttempt ==
    \E doc_id \in pending :
        /\ pending' = pending \ {doc_id}
        /\ all_delete_ids' = all_delete_ids
        /\ \/ store' = {d \in store : d.id # doc_id} /\ failures' = failures
           \/ store' = store /\ failures' = failures + 1

\* C11: in one purge cycle every id of the union of the recency and duplicate
\* sets is attempted exactly once whichever other attempts fail: the loop
\* visits one unvisited id per step, a failure adds one to the failure count
\* and the loop goes on, it ends only when no id is left, and then the
\* reported deleted count is the number of documents gone and, with the
\* failure count, adds up to the number of scheduled ids.
C11_EveryScheduledDeleteAttemptedOnce ==
    /\ [](cpc \in {"deleting", "done"} =>
             /\ all_delete_ids = recent_delete_ids \cup duplicate_delete_ids
             /\ pending \subseteq all_delete_ids
             /\ failed_ids \subseteq Attempted
             /\ failures = Cardinality(failed_ids)
             /\ \A d \in fetched :
                    d \in store <=> d.id \notin (Attempted \ failed_ids))
    /\ [](cpc = "done" =>
             /\ pending = {}
             /\ ReportedDeleted = Cardinality(fetched \ store)
             /\ ReportedDeleted + failures = Cardinality(all_delete_ids))
    /\ [][cpc = "deleting" => OneDeleteAttempt]_vars

\* A finished cycle that scheduled ids of both sets, one of whose deletes
\* failed while another succeeded afterwards or before.
C11_Witness ==
    /\ cpc = "done"
    /\ recent_delete_ids # {} /\ duplicate_delete_ids # {}
    /\ failures = 1
    /\ ReportedDeleted >= 1
    /\ \E d \in store : d.id \in failed_ids

(* ------------------- vocabulary of the sweep claims -------------------- *)

\* The record's datePosted parses and is older than now - h days (a date is the
\* midnight of its day; now is midnight or later on `today`).
OlderThan(d, h) ==
    /\ DatePosted(d) # None
    /\ \/ DatePosted(d) < today - h
       \/ DatePosted(d) = today - h /\ cutoff.after_midnight

\* The horizon, in days, of the sweep's call.
SweepHorizon == horizon_days(months)

\* C12: a sweep with horizon H that reaches the end of the stream has examined
\* every record and has deleted a record if and only if its datePosted parses
\* and is older than now - H (and its delete did not fail), whatever link the
\* record has; records with a missing or unparsable date are all still there,
\* and a delete fails only for a record that was due, the others being
\* examined and deleted all the same.
C12_SweepDeletesExactlyTheOld ==
    spc = "done" =>
        /\ checked = Cardinality(sweep_fetched)
        /\ deleted = Cardinality(sweep_fetched \ store)
        /\ \A d \in sweep_fetched :
               /\ d \notin store <=> (OlderThan(d, SweepHorizon) /\ d.id \notin sweep_failed)
               /\ d.id \in sweep_failed => OlderThan(d, SweepHorizon)

\* A finished sweep over three records with one link: one delete failed and that
\* record is still there, an old one is gone, and an undated one was left alone.
C12_Witness ==
    /\ spc = "done"
    /\ \E a, b, c \in sweep_fetched :
         /\ RawLink(a) = RawLink(b) /\ RawLink(b) = RawLink(c) /\ RawLink(a) # <<>>
         /\ a.id \in sweep_failed /\ a \in store
         /\ OlderThan(b, SweepHorizon) /\ b \notin store
         /\ DatePosted(c) = None /\ c \in store

(* ------------------ admission: order of side effects ------------------- *)

\* The URL being processed, while main is inside its loop iteration.
InFlight == apc \in {"mark", "scrape", "insert", "notify", "mark_inserted"}

\* C13: the seen-set append of a URL is the last call made for it and comes
\* only after the gate found a record, after a failed scrape or validation,
\* or after an insert that returned successfully (and its notification);
\* while a URL is being processed, and in particular while its insert is
\* pending, the URL is not in the seen-set.
C13_MarkOnlyAfterInsertOrFailure ==
    /\ \A k \in Calls("append") :
           /\ k = Len(log) /\ k > 1
           /\ \/ log[k - 1].op = "gate" /\ log[k - 1].res = "true"
              \/ log[k - 1].op = "scrape" /\ log[k - 1].res \in {"none", "no_company"}
              \/ /\ log[k - 1].op = "notify"
                 /\ k > 2 /\ log[k - 2].op = "insert" /\ log[k - 2].res = "ok"
           /\ \A j \in Calls("insert") : j < k /\ log[j].res = "ok"
    /\ InFlight => ~InSeenSet(url)

\* An iteration that inserted, notified and then marked the URL.
C13_Witness ==
    /\ ProcessingEnded
    /\ Len(log) = 5
    /\ log[3].op = "insert" /\ log[3].res = "ok"
    /\ log[4].op = "notify" /\ log[4].res = "sent"
    /\ log[5].op = "append" /\ log[5].res = "ok"
    /\ InSeenSet(log[5].url)

(* ------------------- admission: when a record is inserted -------------- *)

\* The company is non-empty and not "N/A" in any case, after trimming.
CompanyUsable(c) == Strip(c) # <<>> /\ Upper(Strip(c)) # <<"N", "/", "A">>

\* Call k was followed by an insert attempt, or the insert is the next statement.
InsertFollows(k) ==
    \/ k = Len(log) /\ apc = "insert"
    \/ k < Len(log) /\ log[k + 1].op = "insert"

\* C15: in the processing of one URL at most one insert is attempted, and
\* one is attempted exactly when the URL was not in the seen-set, the gate
\* returned false (its answer or its fail-open), the scrape returned a
\* record and the record's company is usable; after a successful insert
\* (and its notification) the append of the URL is the next statement, so
\* the URL is in the seen-set as soon as that append succeeds.
C15_InsertExactlyWhenAdmissible ==
    /\ Cardinality(Calls("insert")) <= 1
    /\ \A k \in Calls("insert") :
           /\ k = 3
           /\ ~InSeenSetBefore(log[k].url)
           /\ log[1].op = "gate" /\ log[1].res \in {"false", "error"}
           /\ log[2].op = "scrape" /\ log[2].res # "none"
           /\ CompanyUsable(log[2].company)
           /\ log[k].res = "ok" =>
                  \/ k = Len(log) /\ apc = "notify"
                  \/ k + 1 = Len(log) /\ apc = "mark_inserted"
                  \/ k + 2 = Len(log) /\ AppendFollowed(k + 1)
    /\ \A k \in Calls("scrape") :
           /\ log[k - 1].op = "gate" /\ log[k - 1].res \in {"false", "error"}
           /\ InsertFollows(k) <=> (log[k].res # "none" /\ CompanyUsable(log[k].company))
    /\ \A k \in Calls("gate") : log[k].res = "true" => Calls("insert") = {}

\* The insert of a record with a usable company has just returned, after the
\* gate answered false.
C15_Witness ==
    /\ apc = "notify"
    /\ Len(log) = 3
    /\ log[1].op = "gate" /\ log[1].res = "false"
    /\ log[2].op = "scrape" /\ CompanyUsable(log[2].company)
    /\ log[3].op = "insert" /\ log[3].res = "ok"
    /\ \E d \in store : d.id = log[3].id /\ RawLink(d) = url

\* C16 as stated: a sweep called without a horizon (months at its default)
\* deletes no record whose datePosted is less than 90 days before now.
C16_DefaultSweepKeepsNinetyDays ==
    (spc # "idle" /\ months = DefaultMonths) =>
        \A d \in sweep_fetched :
            (DatePosted(d) # None /\ DatePosted(d) > today - 90) => d \in store

\* C17 as stated: every purge sweep completes with its report of totals
\* whatever fails: the recency/duplicate cycle never ends on an unhandled
\* failure of the store scan, and the age sweep never ends without its totals.
C17_SweepsAlwaysComplete ==
    /\ cpc # "crashed"
    /\ spc # "failed"

(* ------------------- purge: what the collapse step leaves -------------- *)

\* The scan has run and the deletion sets are those of this cycle.
Scheduled == cpc \in {"deleting", "done"}

\* C20 as stated: a record whose sourceLink is empty or missing, or that is
\* the only non-recent record with its sourceLink, is not scheduled by the
\* duplicate step, and is scheduled at all only if it is recent.
C20_SingletonsUntouched ==
    Scheduled =>
        \A d \in fetched :
            (\/ RawLink(d) = <<>>
             \/ {e \in RawGroup(d) : ~Recent(e)} = {d})
                => /\ d.id \notin duplicate_delete_ids
                   /\ d.id \in all_delete_ids => Recent(d)

\* C20, amended: a record whose sourceLink is empty after trimming or missing,
\* or that is the only non-recent record among those with the same trimmed
\* sourceLink, is not scheduled by the duplicate step, and is scheduled at
\* all only if it is recent.
C20_TrimmedSingletonsUntouched ==
    Scheduled =>
        \A d \in fetched :
            (\/ TrimmedLink(d) = <<>>
             \/ {e \in TrimmedGroup(d) : ~Recent(e)} = {d})
                => /\ d.id \notin duplicate_delete_ids
                   /\ d.id \in all_delete_ids => Recent(d)

\* A finished cycle that deleted a recent record and left its sibling, the only
\* non-recent record of the link, as well as an old record without a link.
C20_Witness ==
    /\ cpc = "done"
    /\ \E r, d, n \in fetched :
         /\ Recent(r) /\ r \notin store
         /\ TrimmedLink(d) # <<>> /\ TrimmedLink(d) = TrimmedLink(r)
         /\ ~Recent(d) /\ d \in store
         /\ TrimmedLink(n) = <<>> /\ ~Recent(n) /\ n \in store

(* ------------- admission: a run killed between insert and mark --------- *)

\* The records of the store whose sourceLink is u.
RecordsOf(u) == {d \in store : RawLink(d) = u}

\* The run was killed after the insert of u had returned, before its append.
KilledAfterInsert(u) ==
    /\ apc = "crashed"
    /\ \E k \in Calls("insert") : log[k].res = "ok" /\ log[k].url = u

\* The step is the kill of a run.
KillStep == apc # "crashed" /\ apc' = "crashed"

\* C14: the kill of a run changes neither the store nor the seen-set file, so
\* the record of an insert that had returned is still stored and its URL is not
\* in the seen-set: the filter of the next run lets the URL through to the
\* gate.  Within a run a URL is taken from the list once and never put back,
\* and its processing makes at most one successful insert, none when the gate
\* answered "true": the crash costs at most one more record.  When the gate's
\* query succeeded and answered "false" there was no record for the URL, and
\* after the insert there is one.  A purge cycle whose deletes all succeeded
\* leaves at most one of the records it scanned for the URL.
C14_CrashAfterInsertCostsOneDuplicate ==
    /\ [][KillStep => (store' = store /\ seen_file' = seen_file)]_vars
    /\ [](\A u \in Urls :
             KilledAfterInsert(u)
                 => /\ ~InSeenSet(u)
                    /\ u \in new_urls({u}, load_processed_urls(seen_file)))
    /\ [][run' = run => todo' \subseteq todo]_vars
    /\ [](InFlight => url \notin todo)
    /\ [](/\ Cardinality({k \in Calls("insert") : log[k].res = "ok"}) <= 1
          /\ \A k \in Calls("insert") :
                 log[1].op = "gate" /\ log[1].url = log[k].url /\ log[1].res # "true")
    /\ []((InFlight /\ log[1].res = "false")
             => Cardinality(RecordsOf(url))
                    <= IF apc \in {"notify", "mark_inserted"} THEN 1 ELSE 0)
    /\ [](CycleDoneClean
             => \A u \in Urls :
                    Cardinality({d \in fetched \cap store : TrimmedLink(d) = u}) <= 1)

\* A run killed after an insert that followed a failed gate query, over a store
\* that already held a record for the URL: two records, and the URL unmarked.
C14_Witness ==
    \E u \in Urls :
        /\ KilledAfterInsert(u)
        /\ log[1].op = "gate" /\ log[1].res = "error"
        /\ Cardinality(RecordsOf(u)) = 2
        /\ ~InSeenSet(u)

(* --------------- purge cycles interleaved with admission --------------- *)

\* The ids of the documents the scan of this cycle fetched.
FetchedIds == {e.id : e \in fetched}

\* The records stored after the scan of the cycle under way or just ended.
InsertedAfterScan == {d \in store : Scheduled /\ d.id \notin FetchedIds}

\* The step is one iteration of the delete loop of the purge cycle.
PurgeLoopStep == cpc = "deleting" /\ pending' # pending

\* The step is a delete of the age sweep with which a run of main begins.
SweepDeleteStep == apc = "sweeping" /\ spc = "streaming" /\ deleted' = deleted + 1

\* C18, as stated: a record stored after the scan of a purge cycle stays in the
\* store until the next cycle scans.
C18_LateInsertSurvivesCycle ==
    [][(Scheduled /\ cycle' = cycle) => InsertedAfterScan \subseteq store']_vars

\* C18, amended: whatever the interleaving of a purge cycle with admission
\* runs, the cycle schedules only ids of documents its scan fetched, an
\* iteration of its delete loop removes at most a scheduled document of the
\* scan and no record stored after the scan, and until the next cycle scans
\* such a record leaves the store only by a delete of the age sweep of a run,
\* which takes it only when its date-posted is before the sweep's cutoff.
C18_CycleSparesLateInsert ==
    /\ [](Scheduled => all_delete_ids \subseteq FetchedIds)
    /\ [][/\ PurgeLoopStep
             => /\ InsertedAfterScan \subseteq store'
                /\ \A d \in store \ store' : d \in fetched /\ d.id \in all_delete_ids
          /\ (Scheduled /\ cycle' = cycle)
             => \A d \in InsertedAfterScan \ store' :
                   SweepDeleteStep /\ is_old(d, cutoff)]_vars

\* A finished cycle that deleted a scanned record while the store holds a
\* record of the same link that was inserted after the scan.
C18_Witness ==
    /\ cpc = "done"
    /\ \E d \in InsertedAfterScan : \E e \in fetched :
         /\ e \notin store
         /\ e.id \in all_delete_ids
         /\ RawLink(e) = RawLink(d)

(* ------------------------ what changes the store ----------------------- *)

\* The ids of the documents of a store.
IdsOf(st) == {d.id : d \in st}

\* The step is the add of line 1016 returning: one document more, under an id
\* the store did not have.
IsInsert ==
    /\ apc = "insert" /\ apc' = "notify"
    /\ \E d \in store' : d.id \notin IdsOf(store) /\ store' = store \cup {d}

\* The step is a delete of the purge loop or of the age sweep: one document
\* less.
IsDelete ==
    /\ cpc = "deleting" \/ spc = "streaming"
    /\ \E d \in store : store' = store \ {d}

\* The step is the call of the existence gate.
IsGateCall == apc = "loop" /\ apc' \in {"mark", "scrape"}

\* C19: over runs of main (each with its age sweep) and purge cycles, no document of the
\* store ever has its fields changed (a document that keeps its id keeps its
\* data, and no two documents share an id); a step that changes the store is
\* the insert of one new document by a run or the delete of one document by
\* the purge loop or the age sweep; the call of the existence gate leaves the
\* store as it is.
C19_RecordsOnlyInsertedOrDeleted ==
    /\ [](\A d, e \in store : d.id = e.id => d = e)
    /\ [][/\ \A d \in store : \A e \in store' : d.id = e.id => d.data = e.data
          /\ store' # store => (IsInsert \/ IsDelete)
          /\ IsGateCall => store' = store]_vars

\* The sweep of a run has deleted a record (one an earlier run had inserted:
\* the records the store began with are younger than its horizon) and a purge
\* cycle has deleted a record dated today, which a run had inserted too.
C19_Witness ==
    /\ spc = "streaming"
    /\ deleted >= 1
    /\ cpc = "done"
    /\ \E e \in fetched : Recent(e) /\ e.id \in all_delete_ids /\ e.id \notin IdsOf(store)

(* ------------------ seen-set: one write per processed URL -------------- *)

\* The set the next call of load_processed_urls would return.
SeenSet == load_processed_urls(seen_file)

\* The step is an append_processed_url call that returned, for URL u.
MarkReturned(u) ==
    /\ apc \in {"mark", "mark_inserted"} /\ url = u
    /\ Len(log') = Len(log) + 1
    /\ log'[Len(log')].op = "append" /\ log'[Len(log')].res = "ok"

\* The step is the start of a run that read the seen-set file.
RunReadsSeenSet == run' = run + 1 /\ log' = <<Event("load", <<>>, "ok")>>

\* C21: the seen-set mark of a URL is in the file as soon as the call that made
\* it has returned, no step takes a URL out of the set the file holds, and the
\* kill of a run leaves the file as it is; the run that starts after a kill
\* loads exactly that set and processes none of its URLs.
C21_MarkDurablePerItem ==
    [][/\ \A u \in Urls : MarkReturned(u) => u \in load_processed_urls(seen_file')
       /\ SeenSet \subseteq load_processed_urls(seen_file')
       /\ KillStep => seen_file' = seen_file
       /\ RunReadsSeenSet => (processed' = SeenSet /\ todo' \cap SeenSet = {})]_vars

\* A run killed after it had marked a URL: the URL is in the file and was not
\* in the set the run had loaded.
C21_Witness ==
    /\ apc = "crashed"
    /\ run < MaxRuns
    /\ \E u \in SeenSet : u \notin processed

(* ------------- purge by recency and what admission does after ---------- *)

\* The scanned records the recency rule of this cycle has deleted.  The records
\* other environments stored are older than the cutoff, so each of these was
\* inserted by a run of this environment.
DeletedAsRecent ==
    {e \in fetched : Scheduled /\ e.id \in recent_delete_ids /\ e.id \notin IdsOf(store)}

\* C22, as the spec states it: once the recency rule has deleted a record, a
\* later run of the environment that is given the record's URL submits it
\* again: the URL passes the seen-set filter of line 976, the only way to the
\* gate, the scrape and the insert.
C22_RecencyDeletedIsReingested ==
    \A e \in DeletedAsRecent :
        RawLink(e) \in new_urls({RawLink(e)}, load_processed_urls(seen_file))

(* ------------- purge: the deletion sets and the scan order ------------- *)

\* Lines 60-125 on the documents in the order docs, infoOf[doc] being the info
\* dict of a document: recent_delete_ids, duplicate_delete_ids, and the ids that
\* the groups of two or more keep (those of their members not scheduled).
PurgeSets(docs, infoOf) ==
    LET il == info_list(docs, infoOf)
    IN  LET recent == RecentIds(il)
        IN  LET dups == DuplicateIds(il, recent)
                groups == {link_to_infos(il, recent, link) :
                              link \in {il[k].moreInfoLink : k \in 1..Len(il)}}
            IN  [recent |-> recent,
                 dups |-> dups,
                 keep |-> UNION {{g[k].id : k \in 1..Len(g)} :
                                    g \in {h \in groups : Len(h) >= 2}} \ dups]

\* The scan of a cycle has been taken and no delete has been attempted yet.
JustScanned == Scheduled /\ pending = all_delete_ids

\* C23: whatever the order in which the scan delivers the documents of the
\* store, the cycle schedules the same ids by the recency rule and the same ids
\* as duplicates, and keeps the same record of every group: every order of the
\* scanned documents gives the sets the cycle computed and the same kept ids.
C23_ScanOrderDoesNotMatter ==
    JustScanned =>
        \E infoOf \in {[d \in fetched |-> mk_info(d, today)]} :
        \E ref \in {PurgeSets(CHOOSE c \in ScanOrders(fetched) : TRUE, infoOf)} :
            /\ ref.recent = recent_delete_ids
            /\ ref.dups = duplicate_delete_ids
            /\ ref.recent \cup ref.dups = all_delete_ids
            /\ \A o \in ScanOrders(fetched) : PurgeSets(o, infoOf) = ref

\* A scan of three records, two of them with one link and one date, neither
\* recent: only their ids tell them apart, and one of the two is scheduled.
C23_Witness ==
    /\ JustScanned
    /\ Cardinality(fetched) = MaxDocs
    /\ \E a, b \in fetched :
         /\ a.id # b.id
         /\ TrimmedLink(a) # <<>> /\ TrimmedLink(a) = TrimmedLink(b)
         /\ DatePosted(a) # None /\ DatePosted(a) = DatePosted(b)
         /\ ~Recent(a)
         /\ a.id \in duplicate_delete_ids /\ b.id \notin all_delete_ids

(* ---------------- purge: one record of every link is kept -------------- *)

\* The scanned records the recency rule did not schedule.
NotRecent == {e \in fetched : e.id \notin recent_delete_ids}

\* The scanned records no rule scheduled.
Kept == {e \in fetched : e.id \notin all_delete_ids}

\* C24 as stated: of the records of every non-empty sourceLink that has a
\* record the recency rule did not schedule, exactly one record that the
\* recency rule did not schedule is not scheduled for deletion.
C24_OneNonRecentPerLinkKept ==
    Scheduled =>
        \A d \in NotRecent :
            RawLink(d) # <<>>
                => Cardinality(RawGroup(d) \cap NotRecent \cap Kept) = 1

\* C24, amended: links are compared after trimming surrounding whitespace; of
\* the records of every link that is non-empty after trimming and has a record
\* the recency rule did not schedule, exactly one record that the recency rule
\* did not schedule is not scheduled for deletion.
C24_OneNonRecentPerTrimmedLinkKept ==
    Scheduled =>
        \A d \in NotRecent :
            TrimmedLink(d) # <<>>
                => Cardinality(TrimmedGroup(d) \cap NotRecent \cap Kept) = 1

\* A scan of a link with a recent record and two others whose stored links
\* differ in padding only: one of the two is scheduled as a duplicate, the
\* other is kept.
C24_Witness ==
    /\ Scheduled
    /\ \E r, a, b \in fetched :
         /\ TrimmedLink(a) # <<>>
         /\ TrimmedLink(a) = TrimmedLink(b) /\ TrimmedLink(a) = TrimmedLink(r)
         /\ RawLink(a) # RawLink(b)
         /\ r.id \in recent_delete_ids
         /\ a \in NotRecent /\ a.id \in duplicate_delete_ids
         /\ b \in NotRecent \cap Kept

(* ------------------ admission: one insert per URL ---------------------- *)

\* C25: in an environment whose runs follow one another, are never killed and
\* whose seen-set writes succeed, no add returns for a URL for which an add of
\* the environment has returned before, whatever the gate answers and whatever
\* the purge has deleted.
C25_EachUrlInsertedAtMostOnce ==
    [][IsInsert => url \notin inserted]_vars

\* A second run that was given only the URL the first run had inserted and the
\* purge has deleted since: the seen-set filter left it nothing to process.
C25_Witness ==
    /\ run = 2
    /\ apc = "finished"
    /\ log = <<Event("load", <<>>, "ok")>>
    /\ \E u \in Urls :
         /\ inserted = {u}
         /\ SeenSet = {u}
         /\ RecordsOf(u) = {}

====
